---- MODULE Spec2Model ----
(***************************************************************************)
(* BeeLineReaderService (src/src/modules/beelineReader.ts) as a state      *)
(* machine: the registry of per-reader states, the mutation observers and  *)
(* debounce timers they own, the toolbar toggle buttons, and the text-layer *)
(* spans the service colorizes and restores.  The host (Zotero reader,      *)
(* pdf.js renderer, plugin lifecycle of src/unnamed/part_000) is the        *)
(* environment: it opens and drops iframe windows, adds spans, rewrites     *)
(* span text, switches theme, lets time pass and dispatches the events.     *)
(***************************************************************************)
EXTENDS Integers, Sequences, FiniteSets, TLC

\* ------------------------------------------------------------------------
\* Bounds of the model
\* ------------------------------------------------------------------------
\* spans the renderer adds to one reader in the lifecycle specification
MaxNodes == 1
\* ReaderState objects ever allocated (each stop() forces fresh ones)
MaxStates == 2
\* host rewrites of span text in one behaviour
MaxHostChanges == 1
\* spans of the rendered text layer in the rewrite specification
MaxSpans == 2
\* cuts of one split of the long text
MaxCuts == 2
\* time-units that pass in one Tick
TickStep == 60

\* ------------------------------------------------------------------------
\* Program constants
\* ------------------------------------------------------------------------
CHARACTERS_PER_CYCLE == 48
BLUE == <<26, 115, 232>>
RED == <<220, 38, 38>>
BLACK == <<17, 24, 39>>
WHITE == <<241, 245, 249>>
\* the setTimeout delay of the mutation callback
REFRESH_DELAY == 120

\* ------------------------------------------------------------------------
\* Readers.  reader.type decides whether toolbarHandler acts at all.
\* ------------------------------------------------------------------------
Readers == {"A", "B", "E"}
readerType(r) == IF r = "E" THEN "epub" ELSE "pdf"
PdfReaders == {r \in Readers : readerType(r) = "pdf"}

\* ------------------------------------------------------------------------
\* JavaScript strings: sequences of UTF-16 code units.  "H" and "L" stand
\* for a high and a low surrogate; "H" directly followed by "L" is one
\* codepoint of two units, every other unit is a codepoint by itself.
\* ------------------------------------------------------------------------
EmptyStr == << >>

\* Array.from(sourceText): the string split by codepoint
RECURSIVE codePointsFrom(_, _)
codePointsFrom(s, i) ==
  IF i > Len(s) THEN << >>
  ELSE IF i < Len(s) /\ s[i] = "H" /\ s[i + 1] = "L"
       THEN << <<s[i], s[i + 1]>> >> \o codePointsFrom(s, i + 2)
       ELSE << <<s[i]>> >> \o codePointsFrom(s, i + 1)

\* the string split by code unit, as sourceText.split("") does (faulty variant)
ArrayFrom_CodeUnits(s) == [i \in 1..Len(s) |-> <<s[i]>>]

ArrayFrom(s) == codePointsFrom(s, 1)

\* ------------------------------------------------------------------------
\* JavaScript numbers.  Every number the gradient computes is an IEEE-754
\* double between 0 and 256 that is a whole multiple of 2^-58, so a number
\* is modelled by that multiple: a natural number below 2^80 written as four
\* limbs of 20 bits, least significant first.  Each arithmetic operation
\* gives the exact result rounded to 53 significant bits, ties to even.
\* ------------------------------------------------------------------------
LimbBase == 2^20

\* carries propagated, so that every limb is in 0..LimbBase-1
Norm(X) ==
  LET v2 == X[2] + (X[1] \div LimbBase)
      v3 == X[3] + (v2 \div LimbBase)
      v4 == X[4] + (v3 \div LimbBase)
  IN  <<X[1] % LimbBase, v2 % LimbBase, v3 % LimbBase, v4>>

AddBig(X, Y) == Norm([i \in 1..4 |-> X[i] + Y[i]])
SubBig(X, Y) == Norm([i \in 1..4 |-> X[i] - Y[i]])
MulSmall(X, m) == Norm([i \in 1..4 |-> X[i] * m])

\* X < Y
LessBig(X, Y) ==
  \E i \in 1..4 : X[i] < Y[i] /\ \A j \in (i + 1)..4 : X[j] = Y[j]

\* quotient and remainder of X by the small number d
DivSmall(X, d) ==
  LET v4 == X[4]
      v3 == (v4 % d) * LimbBase + X[3]
      v2 == (v3 % d) * LimbBase + X[2]
      v1 == (v2 % d) * LimbBase + X[1]
  IN  [q |-> <<v1 \div d, v2 \div d, v3 \div d, v4 \div d>>, rem |-> v1 % d]

\* the number of bits of X
BitLen(n) == CHOOSE b \in 0..20 : n < 2^b /\ (b = 0 \/ n >= 2^(b - 1))
BigBitLen(X) ==
  IF X[4] # 0 THEN 60 + BitLen(X[4])
  ELSE IF X[3] # 0 THEN 40 + BitLen(X[3])
  ELSE IF X[2] # 0 THEN 20 + BitLen(X[2])
  ELSE BitLen(X[1])

\* the double nearest to X + fn/fd (0 <= fn < fd): X + fn/fd rounded to 53
\* significant bits, ties to even.  With fewer than 53 bits there is nothing
\* to round (every such use has fn = 0); the bits rounded away lie in the
\* lowest limb.
Round53(X, fn, fd) ==
  LET s == BigBitLen(X) - 53
  IN  IF s < 0 THEN X
      ELSE IF s = 0
      THEN IF 2 * fn > fd \/ (2 * fn = fd /\ X[1] % 2 = 1)
           THEN Norm(<<X[1] + 1, X[2], X[3], X[4]>>)
           ELSE X
      ELSE LET low  == X[1] % (2^s)
               half == 2^(s - 1)
               odd  == (X[1] \div (2^s)) % 2 = 1
               up   == low > half \/ (low = half /\ (fn > 0 \/ odd))
           IN  Norm(<<X[1] - low + (IF up THEN 2^s ELSE 0), X[2], X[3], X[4]>>)

\* the integer n (0 <= n < 2^12) as a number: n * 2^58
FromInt(n) == Norm(<<0, 0, n * (2^18), 0>>)
\* 0.5
Half == <<0, 0, 2^17, 0>>

\* num / den for small non-negative integers, 0 <= num < den
Divide(num, den) ==
  LET d == DivSmall(FromInt(num), den)
  IN  Round53(d.q, d.rem, den)

\* Math.round of a number: the floor of x + 0.5
MathRound(X) ==
  LET Y == AddBig(X, Half)
  IN  (Y[4] * LimbBase + Y[3]) \div (2^18)

\* ------------------------------------------------------------------------
\* Colors.  sampleColor takes t as the pair <<n, d>> of the operands of the
\* division that computes it, ((charOffset + i) % 48) / 48, and interpolate
\* takes t as a number.
\* ------------------------------------------------------------------------
\* interpolate rounding each channel down (faulty variant)
interpolate_Floor(from, to, t) ==
  LET channel(i) ==
        LET prod == Round53(MulSmall(t, IF to[i] >= from[i] THEN to[i] - from[i]
                                        ELSE from[i] - to[i]), 0, 1)
            sum  == Round53(IF to[i] >= from[i] THEN AddBig(FromInt(from[i]), prod)
                            ELSE SubBig(FromInt(from[i]), prod), 0, 1)
        IN  (sum[4] * LimbBase + sum[3]) \div (2^18)
  IN  <<channel(1), channel(2), channel(3)>>

\* Math.round(from[i] + (to[i] - from[i]) * t): the product rounded, then the
\* sum rounded, then Math.round
interpolate(from, to, t) ==
  LET channel(i) ==
        LET prod == Round53(MulSmall(t, IF to[i] >= from[i] THEN to[i] - from[i]
                                        ELSE from[i] - to[i]), 0, 1)
            sum  == Round53(IF to[i] >= from[i] THEN AddBig(FromInt(from[i]), prod)
                            ELSE SubBig(FromInt(from[i]), prod), 0, 1)
        IN  MathRound(sum)
  IN  <<channel(1), channel(2), channel(3)>>

\* t * 2 and (t - 0.5) * 2 are exact
sampleColor(t, endColor) ==
  LET T == Divide(t[1], t[2])
  IN  IF LessBig(T, Half)
      THEN interpolate(BLUE, RED, MulSmall(T, 2))
      ELSE interpolate(RED, endColor, MulSmall(SubBig(T, Half), 2))

\* ------------------------------------------------------------------------
\* DOM spans (".textLayer > span").  kids are the child nodes: a "#text"
\* node, or the generated one-character "span" nodes with their color.
\* original/applied are dataset.beelineOriginal / dataset.beelineApplied.
\* init, clean and passes are history: the text the renderer created the
\* span with, whether the host has rewritten it since, and how many apply
\* passes have colorized it (counted up to 2).
\* ------------------------------------------------------------------------
NoColor == << >>
Undefined == [has |-> FALSE, val |-> EmptyStr]
Defined(s) == [has |-> TRUE, val |-> s]

TextKids(s) ==
  IF s = EmptyStr THEN << >>
  ELSE << [tag |-> "#text", text |-> s, color |-> NoColor] >>

RECURSIVE Concat(_)
Concat(kids) ==
  IF kids = << >> THEN EmptyStr ELSE Head(kids).text \o Concat(Tail(kids))

\* span.textContent
textContent(span) == Concat(span.kids)

NewSpan(s) ==
  [kids |-> TextKids(s), original |-> Undefined, applied |-> FALSE,
   init |-> s, clean |-> TRUE, passes |-> 0]

\* getSourceText: the text it returns and the span with the annotation it
\* leaves.  A captured empty string is falsy and is captured again.
getSourceText(span) ==
  IF span.original.has /\ span.original.val # EmptyStr
  THEN [text |-> span.original.val, span |-> span]
  ELSE LET text == textContent(span)
       IN  [text |-> text, span |-> [span EXCEPT !.original = Defined(text)]]

\* restoreSpan with the text write left out (faulty variant)
restoreSpan_NoWrite(span) ==
  IF ~span.applied THEN span
  ELSE [span EXCEPT !.applied = FALSE]

restoreSpan(span) ==
  IF ~span.applied THEN span
  ELSE LET text == IF span.original.has /\ span.original.val # EmptyStr
                   THEN span.original.val
                   ELSE textContent(span)
       IN  [span EXCEPT !.kids = TextKids(text), !.applied = FALSE]

\* sampleColor is a pure function of the cycle position and the end color:
\* its values, computed once for every position and both end colors
sampleColors ==
  [endColor \in {BLACK, WHITE} |->
     [n \in 0..(CHARACTERS_PER_CYCLE - 1) |->
        sampleColor(<<n, CHARACTERS_PER_CYCLE>>, endColor)]]

\* the generated children of one span: chars[i] colored at charOffset + i
charNodes(chars, charOffset, endColor) ==
  [i \in 1..Len(chars) |->
     [tag |-> "span", text |-> chars[i],
      color |-> sampleColors[endColor][(charOffset + (i - 1)) % CHARACTERS_PER_CYCLE]]]

\* the offset advanced by the length in code units (faulty variant)
nextOffset_CodeUnits(charOffset, sourceText) == charOffset + Len(sourceText)

\* the offset the loop carries to the next span
nextOffset(charOffset, sourceText) == charOffset + Len(ArrayFrom(sourceText))

\* the body of the apply loop from span i on, with the running charOffset
RECURSIVE applyFrom(_, _, _, _)
applyFrom(spans, i, charOffset, endColor) ==
  IF i > Len(spans) THEN spans
  ELSE LET src == getSourceText(spans[i])
       IN  IF src.text = EmptyStr
           THEN applyFrom([spans EXCEPT ![i] = src.span], i + 1, charOffset, endColor)
           ELSE LET el == [src.span EXCEPT
                             !.kids = charNodes(ArrayFrom(src.text), charOffset, endColor),
                             !.applied = TRUE,
                             !.passes = IF @ < 2 THEN @ + 1 ELSE @]
                IN  applyFrom([spans EXCEPT ![i] = el], i + 1,
                              nextOffset(charOffset, src.text), endColor)

\* the apply loop with an offset that survives from the previous pass (faulty variant)
RECURSIVE SumApplied(_)
SumApplied(spans) ==
  IF spans = << >> THEN 0
  ELSE (IF Head(spans).applied THEN Len(Head(spans).kids) ELSE 0) + SumApplied(Tail(spans))

applySpans_CarryOffset(spans, endColor) == applyFrom(spans, 1, SumApplied(spans), endColor)

\* let charOffset = 0; for (const span of textSpans) { ... }
applySpans(spans, endColor) == applyFrom(spans, 1, 0, endColor)

restoreSpans(spans) == [i \in 1..Len(spans) |-> restoreSpan(spans[i])]

\* ------------------------------------------------------------------------
\* State
\* ------------------------------------------------------------------------
VARIABLES
  registered,     \* the renderToolbar listener is registered (start/stop)
  iframeWindow,   \* reader._iframeWindow: "none", "nobody" (no document.body), "ready"
  theme,          \* per reader: [classDark, mediaDark], what isDarkTheme reads
  heap,           \* the ReaderState objects ever created, by identity
  stateByReader,  \* the registry: reader -> index in heap, 0 when absent
  observers,      \* the MutationObservers ever created: [reader, state, connected]
  timers,         \* outstanding setTimeout timers: [id, reader, state, remaining]
  button,         \* per reader: the toggle button in the toolbar document
  dom,            \* per reader: the ".textLayer > span" elements, in document order
  watch,          \* history, per ReaderState object: its debounce bookkeeping
  pass,           \* history, per reader: the last pass over its spans
  hostChanges,    \* history: host rewrites of span text so far
  clickSaw        \* history, per reader: its last click found another reader set up

vars == <<registered, iframeWindow, theme, heap, stateByReader, observers,
          timers, button, dom, watch, pass, hostChanges, clickSaw>>

\* the part of the state the service's methods read and write
Cur ==
  [heap |-> heap, stateByReader |-> stateByReader, observers |-> observers,
   timers |-> timers, button |-> button, dom |-> dom, watch |-> watch,
   pass |-> pass]

\* the state a handler leaves becomes the next state
Commit(S) ==
  \E T \in {S} :
    /\ heap' = T.heap
    /\ stateByReader' = T.stateByReader
    /\ observers' = T.observers
    /\ timers' = T.timers
    /\ button' = T.button
    /\ dom' = T.dom
    /\ watch' = T.watch
    /\ pass' = T.pass

\* history of the watcher of one ReaderState object, kept while the watcher
\* is connected: time since its last qualifying batch (-1: none yet; counted
\* up to REFRESH_DELAY), batches in the current burst (each less than
\* REFRESH_DELAY after the previous; counted up to 2), timer recomputations
\* since the last batch, the time since that batch at which the
\* recomputation ran, the pass that recomputation made ("apply", "restore",
\* or "skipped" when it found no rendered document), and whether an install
\* call has found it in place
NewWatch ==
  [sinceBatch |-> -1, burst |-> 0, calls |-> 0, callAt |-> -1, callPass |-> "none",
   reinstall |-> FALSE]

\* history of the passes over one reader's spans: the kind of the last pass
\* ("none" once the content or the theme has changed since), how many apply
\* passes ran in a row (counted up to 2), and the end color the last apply
\* pass sampled with
NoPass == [kind |-> "none", count |-> 0, endColor |-> NoColor]
RestorePass == [kind |-> "restore", count |-> 0, endColor |-> NoColor]
ApplyPass(p, endColor) ==
  [kind |-> "apply", endColor |-> endColor,
   count |-> IF p.kind = "apply" THEN (IF p.count < 2 THEN p.count + 1 ELSE p.count) ELSE 1]

NoButton == [exists |-> FALSE, pressed |-> FALSE, state |-> 0]

\* ------------------------------------------------------------------------
\* The service's methods, as functions from state to state
\* ------------------------------------------------------------------------
ensureReaderState(S, r) ==
  IF S.stateByReader[r] # 0 THEN S
  ELSE [S EXCEPT !.heap = Append(@, [enabled |-> TRUE, observer |-> 0, refreshTimer |-> 0]),
                 !.stateByReader[r] = Len(S.heap) + 1,
                 !.watch = Append(@, NewWatch)]

\* setTimeout returns a handle no live timer and no stored handle uses
NewTimerId(S) ==
  LET used == {t.id : t \in S.timers}
                \cup {S.heap[i].refreshTimer : i \in 1..Len(S.heap)}
  IN  CHOOSE n \in 1..(Cardinality(used) + 1) : n \notin used

clearTimeout(tms, r, id) == {t \in tms : ~(t.reader = r /\ t.id = id)}

\* the mutation callback without the clearTimeout of the pending timer (faulty variant)
scheduleRefresh_NoCancel(S, r, st) ==
  LET id == NewTimerId(S)
  IN  [S EXCEPT
         !.timers = @ \cup {[id |-> id, reader |-> r, state |-> st,
                             remaining |-> REFRESH_DELAY]},
         !.heap[st].refreshTimer = id]

\* the mutation callback cancelling the pending timer without scheduling a
\* new one when one was pending (faulty variant)
scheduleRefresh_CancelOnly(S, r, st) ==
  IF S.heap[st].refreshTimer # 0
  THEN [S EXCEPT !.timers = clearTimeout(@, r, S.heap[st].refreshTimer),
                 !.heap[st].refreshTimer = 0]
  ELSE LET id == NewTimerId(S)
       IN  [S EXCEPT
              !.timers = @ \cup {[id |-> id, reader |-> r, state |-> st,
                                  remaining |-> REFRESH_DELAY]},
              !.heap[st].refreshTimer = id]

\* lines 107-113: cancel the pending timer, schedule a new one
scheduleRefresh(S, r, st) ==
  LET id == NewTimerId(S)
      kept == IF S.heap[st].refreshTimer # 0
              THEN clearTimeout(S.timers, r, S.heap[st].refreshTimer)
              ELSE S.timers
  IN  [S EXCEPT
         !.timers = kept \cup {[id |-> id, reader |-> r, state |-> st,
                                remaining |-> REFRESH_DELAY]},
         !.heap[st].refreshTimer = id]

\* the MutationObserver callback of observer o for one batch; qualifying:
\* some added node is an HTMLElement that is or contains a ".textLayer"
mutationCallback(S, o, qualifying) ==
  IF ~qualifying THEN S
  ELSE LET st == S.observers[o].state
           S1 == scheduleRefresh(S, S.observers[o].reader, st)
           w  == S.watch[st]
       IN  [S1 EXCEPT !.watch[st] =
              [sinceBatch |-> 0,
               burst |-> IF w.sinceBatch >= 0 /\ w.sinceBatch < REFRESH_DELAY
                         THEN (IF w.burst < 2 THEN w.burst + 1 ELSE w.burst)
                         ELSE 1,
               calls |-> 0, callAt |-> -1, callPass |-> "none",
               reinstall |-> w.reinstall]]

\* observeReaderTextLayer with the "already observing" check left out (faulty variant)
observeReaderTextLayer_NoCheck(S, r) ==
  IF iframeWindow[r] = "none" THEN S
  ELSE LET S1 == ensureReaderState(S, r)
           st == S1.stateByReader[r]
       IN  IF iframeWindow[r] = "nobody" THEN S1
           ELSE [S1 EXCEPT
                   !.observers = Append(@, [reader |-> r, state |-> st, connected |-> TRUE]),
                   !.heap[st].observer = Len(S1.observers) + 1]

\* observeReaderTextLayer creating the observer before it looks for the body:
\* without a body the handle is set on an observer that observes nothing
\* (faulty variant)
observeReaderTextLayer_EarlyHandle(S, r) ==
  IF iframeWindow[r] = "none" THEN S
  ELSE LET S1 == ensureReaderState(S, r)
           st == S1.stateByReader[r]
       IN  IF S1.heap[st].observer # 0
           THEN [S1 EXCEPT !.watch[st].reinstall =
                             S1.observers[S1.heap[st].observer].connected]
           ELSE [S1 EXCEPT
                   !.observers = Append(@, [reader |-> r, state |-> st,
                                            connected |-> iframeWindow[r] = "ready"]),
                   !.heap[st].observer = Len(S1.observers) + 1]

observeReaderTextLayer(S, r) ==
  IF iframeWindow[r] = "none" THEN S
  ELSE LET S1 == ensureReaderState(S, r)
           st == S1.stateByReader[r]
       IN  IF S1.heap[st].observer # 0
           THEN [S1 EXCEPT !.watch[st].reinstall =
                             S1.observers[S1.heap[st].observer].connected]
           ELSE IF iframeWindow[r] = "nobody" THEN S1
           ELSE [S1 EXCEPT
                   !.observers = Append(@, [reader |-> r, state |-> st, connected |-> TRUE]),
                   !.heap[st].observer = Len(S1.observers) + 1]

\* isDarkTheme looking at the theme-dark class only (faulty variant)
isDarkTheme_ClassOnly(r) == theme[r].classDark

isDarkTheme(r) == theme[r].classDark \/ theme[r].mediaDark

\* doc.querySelectorAll(".textLayer > span"): nothing without a body
textSpans(S, r) == IF iframeWindow[r] = "ready" THEN S.dom[r] ELSE << >>

\* refreshReader taking the apply branch whatever the enabled flag says (faulty variant)
refreshReader_IgnoreFlag(S, r) ==
  IF iframeWindow[r] = "none" THEN S
  ELSE LET S1 == ensureReaderState(S, r)
           endColor == IF isDarkTheme(r) THEN WHITE ELSE BLACK
       IN  IF iframeWindow[r] # "ready" THEN S1
           ELSE [S1 EXCEPT !.dom[r] = applySpans(textSpans(S1, r), endColor),
                           !.pass[r] = ApplyPass(@, endColor)]

refreshReader(S, r) ==
  IF iframeWindow[r] = "none" THEN S
  ELSE LET S1 == ensureReaderState(S, r)
           state == S1.heap[S1.stateByReader[r]]
       IN  IF iframeWindow[r] # "ready" THEN S1
           ELSE IF ~state.enabled
           THEN [S1 EXCEPT !.dom[r] = restoreSpans(textSpans(S1, r)),
                           !.pass[r] = RestorePass]
           ELSE LET endColor == IF isDarkTheme(r) THEN WHITE ELSE BLACK
                IN  [S1 EXCEPT !.dom[r] = applySpans(textSpans(S1, r), endColor),
                               !.pass[r] = ApplyPass(@, endColor)]

clearReader(S, r) ==
  IF S.stateByReader[r] = 0 THEN S
  ELSE LET st == S.stateByReader[r]
           state == S.heap[st]
           cancel == state.refreshTimer # 0 /\ iframeWindow[r] # "none"
       IN  [S EXCEPT
              !.timers = IF cancel THEN clearTimeout(@, r, state.refreshTimer) ELSE @,
              !.watch[st] = NewWatch,
              !.observers = IF state.observer # 0
                            THEN [@ EXCEPT ![state.observer].connected = FALSE]
                            ELSE @,
              !.dom[r] = IF iframeWindow[r] = "ready" THEN restoreSpans(@) ELSE @,
              !.pass[r] = IF iframeWindow[r] = "ready" THEN RestorePass ELSE @]

\* Zotero.Reader._readers, in some order
ReaderSeq == <<"A", "B", "E">>

RECURSIVE clearReaders(_, _)
clearReaders(S, i) ==
  IF i > Len(ReaderSeq) THEN S ELSE clearReaders(clearReader(S, ReaderSeq[i]), i + 1)

stop(S) ==
  [clearReaders(S, 1) EXCEPT !.stateByReader = [r \in Readers |-> 0]]

\* updateButtonState: aria-pressed (font weight and opacity follow it)
updateButtonState(b, enabled) == [b EXCEPT !.pressed = enabled]

toolbarHandler(S, r) ==
  IF readerType(r) # "pdf" THEN S
  ELSE LET S1 == ensureReaderState(S, r)
           st == S1.stateByReader[r]
           S2 == IF ~S1.button[r].exists
                 THEN [S1 EXCEPT !.button[r] =
                         updateButtonState([exists |-> TRUE, pressed |-> FALSE, state |-> st],
                                           S1.heap[st].enabled)]
                 ELSE S1
       IN  refreshReader(observeReaderTextLayer(S2, r), r)

\* the click listener flipping every registry entry instead of its own state (faulty variant)
clickHandler_Global(S, r) ==
  LET st == S.button[r].state
      S1 == [S EXCEPT !.heap = [i \in 1..Len(S.heap) |->
                                  [S.heap[i] EXCEPT !.enabled = ~S.heap[i].enabled]]]
      S2 == [S1 EXCEPT !.button[r] = updateButtonState(@, S1.heap[st].enabled)]
  IN  refreshReader(S2, r)

\* the click listener of the button toolbarHandler created for reader r
clickHandler(S, r) ==
  LET st == S.button[r].state
      S1 == [S EXCEPT !.heap[st].enabled = ~@]
      S2 == [S1 EXCEPT !.button[r] = updateButtonState(@, S1.heap[st].enabled)]
  IN  refreshReader(S2, r)

\* the setTimeout callback of timer t
timerCallback(S, t) ==
  LET w  == S.watch[t.state]
      S1 == [S EXCEPT !.timers = @ \ {t},
                      !.heap[t.state].refreshTimer = 0]
      S2 == refreshReader(S1, t.reader)
      made == IF iframeWindow[t.reader] # "ready" THEN "skipped"
              ELSE IF S2.heap[S2.stateByReader[t.reader]].enabled THEN "apply"
              ELSE "restore"
  IN  [S2 EXCEPT !.watch[t.state] =
         IF w.sinceBatch < 0 THEN w
         ELSE [w EXCEPT !.calls = @ + 1, !.callAt = w.sinceBatch, !.callPass = made]]

\* ------------------------------------------------------------------------
\* Initial state: the service constructed, start() not yet called, no
\* reader window loaded, nothing rendered.
\* ------------------------------------------------------------------------
LightTheme == [classDark |-> FALSE, mediaDark |-> FALSE]

Init ==
  /\ registered = FALSE
  /\ iframeWindow = [r \in Readers |-> "none"]
  /\ theme = [r \in Readers |-> LightTheme]
  /\ heap = << >>
  /\ stateByReader = [r \in Readers |-> 0]
  /\ observers = << >>
  /\ timers = {}
  /\ button = [r \in Readers |-> NoButton]
  /\ dom = [r \in Readers |-> << >>]
  /\ watch = << >>
  /\ pass = [r \in Readers |-> NoPass]
  /\ hostChanges = 0
  /\ clickSaw = [r \in Readers |-> FALSE]

\* reader b has a registry entry with a connected watcher and a pending
\* timer, and colorized spans
SetUp(b) ==
  /\ stateByReader[b] # 0
  /\ heap[stateByReader[b]].observer # 0
  /\ observers[heap[stateByReader[b]].observer].connected
  /\ \E t \in timers : t.reader = b /\ t.id = heap[stateByReader[b]].refreshTimer
  /\ \E i \in 1..Len(dom[b]) : dom[b][i].applied

\* a handler that may have to create a ReaderState stays within MaxStates
CanAlloc(r) == stateByReader[r] # 0 \/ Len(heap) < MaxStates

envVars == <<iframeWindow, theme, hostChanges, clickSaw>>

\* ------------------------------------------------------------------------
\* Actions of the plugin lifecycle (src/unnamed/part_000)
\* ------------------------------------------------------------------------
Start ==
  /\ ~registered
  /\ registered' = TRUE
  /\ UNCHANGED <<iframeWindow, theme, heap, stateByReader, observers, timers,
                 button, dom, watch, pass, hostChanges, clickSaw>>

Stop ==
  /\ registered
  /\ registered' = FALSE
  /\ Commit(stop(Cur))
  /\ UNCHANGED envVars

\* ------------------------------------------------------------------------
\* Events the host dispatches into the service
\* ------------------------------------------------------------------------
\* "renderToolbar" for reader r, delivered while the listener is registered
ToolbarEvent(r) ==
  /\ registered
  /\ CanAlloc(r)
  /\ Commit(toolbarHandler(Cur, r))
  /\ UNCHANGED <<registered, iframeWindow, theme, hostChanges, clickSaw>>

\* a click on the toggle button of reader r
Click(r) ==
  /\ button[r].exists
  /\ CanAlloc(r)
  /\ Commit(clickHandler(Cur, r))
  /\ clickSaw' = [clickSaw EXCEPT ![r] = \E b \in Readers \ {r} : SetUp(b)]
  /\ UNCHANGED <<registered, iframeWindow, theme, hostChanges>>

\* a due timer runs its callback
TimerFire(t) ==
  /\ t \in timers
  /\ t.remaining = 0
  /\ CanAlloc(t.reader)
  /\ Commit(timerCallback(Cur, t))
  /\ UNCHANGED <<registered, iframeWindow, theme, hostChanges, clickSaw>>

\* every connected observer of reader r receives the batch
RECURSIVE deliver(_, _, _, _)
deliver(S, r, qualifying, o) ==
  IF o > Len(S.observers) THEN S
  ELSE deliver(IF S.observers[o].reader = r /\ S.observers[o].connected
               THEN mutationCallback(S, o, qualifying)
               ELSE S,
               r, qualifying, o + 1)

\* the renderer adds nodes under the body of reader r: a text layer
\* (qualifying) with the spans in added, or nodes without a text layer
Mutation(r, qualifying, added) ==
  /\ iframeWindow[r] = "ready"
  /\ Len(dom[r]) + Len(added) <= MaxNodes
  /\ ~qualifying => added = << >>
  /\ Commit(deliver([Cur EXCEPT !.dom[r] = @ \o added,
                                 !.pass[r] = IF added = << >> THEN @ ELSE NoPass],
                     r, qualifying, 1))
  /\ UNCHANGED <<registered, iframeWindow, theme, hostChanges, clickSaw>>

\* the host rewrites the text of span i of reader r; the records of that
\* change add text nodes only, so no observer callback gets past its filter
HostSetText(r, i, s) ==
  /\ iframeWindow[r] = "ready"
  /\ i \in 1..Len(dom[r])
  /\ hostChanges < MaxHostChanges
  /\ textContent(dom[r][i]) # s
  /\ dom' = [dom EXCEPT ![r][i].kids = TextKids(s), ![r][i].clean = FALSE]
  /\ hostChanges' = hostChanges + 1
  /\ pass' = [pass EXCEPT ![r] = NoPass]
  /\ UNCHANGED <<registered, iframeWindow, theme, heap, stateByReader, observers,
                 timers, button, watch, clickSaw>>

\* the iframe window of reader r loads, gets its body, or goes away
WindowChange(r, w) ==
  /\ iframeWindow[r] # w
  /\ iframeWindow' = [iframeWindow EXCEPT ![r] = w]
  /\ UNCHANGED <<registered, theme, heap, stateByReader, observers, timers,
                 button, dom, watch, pass, hostChanges, clickSaw>>

\* the viewer of reader r switches presentation mode
ThemeChange(r, th) ==
  /\ theme[r] # th
  /\ theme' = [theme EXCEPT ![r] = th]
  /\ pass' = [pass EXCEPT ![r] = NoPass]
  /\ UNCHANGED <<registered, iframeWindow, heap, stateByReader, observers, timers,
                 button, dom, watch, hostChanges, clickSaw>>

Min(a, b) == IF a < b THEN a ELSE b
Max(a, b) == IF a > b THEN a ELSE b

\* TickStep time-units pass
Tick ==
  /\ timers' = {[t EXCEPT !.remaining = Max(0, @ - TickStep)] : t \in timers}
  /\ watch' = [i \in 1..Len(watch) |->
                 IF watch[i].sinceBatch < 0 THEN watch[i]
                 ELSE [watch[i] EXCEPT !.sinceBatch = Min(REFRESH_DELAY, @ + TickStep)]]
  /\ UNCHANGED <<registered, iframeWindow, theme, heap, stateByReader, observers,
                 button, dom, pass, hostChanges, clickSaw>>

Themes == {LightTheme, [classDark |-> TRUE, mediaDark |-> FALSE],
           [classDark |-> FALSE, mediaDark |-> TRUE]}

\* the text the renderer gives the spans of the lifecycle specifications:
\* a two-unit character and a space
LayerText == <<"H", "L", " ">>

\* ------------------------------------------------------------------------
\* Lifecycle of one PDF reader ("A"; "E" is not a PDF reader): every event
\* of the service in every order, with the window coming and going.
\* ------------------------------------------------------------------------
Next ==
  \/ Start
  \/ Stop
  \/ \E r \in {"A", "E"} : ToolbarEvent(r)
  \/ Click("A")
  \/ \E t \in timers : TimerFire(t)
  \/ Mutation("A", TRUE, <<NewSpan(LayerText)>>)
  \/ \E q \in BOOLEAN : Mutation("A", q, << >>)
  \/ \E w \in {"none", "nobody", "ready"} : WindowChange("A", w)
  \/ Tick

Spec == Init /\ [][Next]_vars

\* ------------------------------------------------------------------------
\* The colorizer on one reader: the service started, the window of "A"
\* loaded, its text layer rendered as some split of LongText into spans
\* (an empty span where a cut repeats or lies at an end); then apply and
\* restore passes in every order, with theme switches.
\* ------------------------------------------------------------------------
\* 50 codepoints in 51 code units: a two-unit character, a space, 48 letters
LongText == <<"H", "L", " ">> \o [i \in 1..CHARACTERS_PER_CYCLE |-> "a"]

\* where the renderer may cut LongText (never inside the two-unit character)
CutPoints == {0, 2, 3, 27, Len(LongText)}

Cuts ==
  {c \in UNION {[1..n -> CutPoints] : n \in 0..MaxCuts} :
     \A i \in 1..(Len(c) - 1) : c[i] <= c[i + 1]}

\* the spans of LongText cut at c[1] <= c[2] <= ...
SplitAt(c) ==
  [j \in 1..(Len(c) + 1) |->
     NewSpan(SubSeq(LongText,
                    (IF j = 1 THEN 0 ELSE c[j - 1]) + 1,
                    IF j = Len(c) + 1 THEN Len(LongText) ELSE c[j]))]

InitPass ==
  /\ registered = TRUE
  /\ iframeWindow = [r \in Readers |-> IF r = "A" THEN "ready" ELSE "none"]
  /\ theme = [r \in Readers |-> LightTheme]
  /\ heap = << >>
  /\ stateByReader = [r \in Readers |-> 0]
  /\ observers = << >>
  /\ timers = {}
  /\ button = [r \in Readers |-> NoButton]
  /\ \E c \in Cuts : dom = [r \in Readers |-> IF r = "A" THEN SplitAt(c) ELSE << >>]
  /\ watch = << >>
  /\ pass = [r \in Readers |-> NoPass]
  /\ hostChanges = 0
  /\ clickSaw = [r \in Readers |-> FALSE]

NextPass ==
  \/ ToolbarEvent("A")
  \/ Click("A")
  \/ \E th \in Themes : ThemeChange("A", th)

SpecPass == InitPass /\ [][NextPass]_vars

\* ------------------------------------------------------------------------
\* The colorizer under host rewrites: the service started, the window of
\* "A" loaded, its text layer rendered as up to MaxSpans spans of short
\* texts; then apply and restore passes, theme switches and host rewrites
\* of span text in every order.
\* ------------------------------------------------------------------------
\* empty, whitespace only, and a two-unit character with a space and a letter
Texts == {EmptyStr, <<" ">>, <<"H", "L", " ", "a">>}

InitHost ==
  /\ registered = TRUE
  /\ iframeWindow = [r \in Readers |-> IF r = "A" THEN "ready" ELSE "none"]
  /\ theme = [r \in Readers |-> LightTheme]
  /\ heap = << >>
  /\ stateByReader = [r \in Readers |-> 0]
  /\ observers = << >>
  /\ timers = {}
  /\ button = [r \in Readers |-> NoButton]
  /\ \E n \in 0..MaxSpans : \E txt \in [1..n -> Texts] :
        dom = [r \in Readers |-> IF r = "A" THEN [j \in 1..n |-> NewSpan(txt[j])]
                                           ELSE << >>]
  /\ watch = << >>
  /\ pass = [r \in Readers |-> NoPass]
  /\ hostChanges = 0
  /\ clickSaw = [r \in Readers |-> FALSE]

NextHost ==
  \/ ToolbarEvent("A")
  \/ Click("A")
  \/ \E i \in 1..MaxSpans, s \in Texts : HostSetText("A", i, s)
  \/ \E th \in Themes : ThemeChange("A", th)

SpecHost == InitHost /\ [][NextHost]_vars

\* ------------------------------------------------------------------------
\* Two PDF readers side by side, the service started, both loaded and
\* rendered: the events of the service on either, in every order.
\* ------------------------------------------------------------------------
InitPair ==
  /\ registered = TRUE
  /\ iframeWindow = [r \in Readers |-> IF r \in PdfReaders THEN "ready" ELSE "none"]
  /\ theme = [r \in Readers |-> LightTheme]
  /\ heap = << >>
  /\ stateByReader = [r \in Readers |-> 0]
  /\ observers = << >>
  /\ timers = {}
  /\ button = [r \in Readers |-> NoButton]
  /\ dom = [r \in Readers |-> IF r \in PdfReaders THEN <<NewSpan(LayerText)>> ELSE << >>]
  /\ watch = << >>
  /\ pass = [r \in Readers |-> NoPass]
  /\ hostChanges = 0
  /\ clickSaw = [r \in Readers |-> FALSE]

NextPair ==
  \/ \E r \in PdfReaders : ToolbarEvent(r)
  \/ \E r \in PdfReaders : Click(r)
  \/ \E t \in timers : TimerFire(t)
  \/ \E r \in PdfReaders : Mutation(r, TRUE, << >>)
  \/ Tick

SpecPair == InitPair /\ [][NextPair]_vars

\* ------------------------------------------------------------------------
\* One PDF reader whose window stays loaded, the service started and never
\* stopped: the renderer adds text layers and spans, batches arrive without
\* bound, time passes.  The host's event loop runs a timer's callback once
\* it is due, and time does not stand still.
\* ------------------------------------------------------------------------
InitLive ==
  /\ registered = TRUE
  /\ iframeWindow = [r \in Readers |-> IF r = "A" THEN "ready" ELSE "none"]
  /\ theme = [r \in Readers |-> LightTheme]
  /\ heap = << >>
  /\ stateByReader = [r \in Readers |-> 0]
  /\ observers = << >>
  /\ timers = {}
  /\ button = [r \in Readers |-> NoButton]
  /\ dom = [r \in Readers |-> << >>]
  /\ watch = << >>
  /\ pass = [r \in Readers |-> NoPass]
  /\ hostChanges = 0
  /\ clickSaw = [r \in Readers |-> FALSE]

NextLive ==
  \/ ToolbarEvent("A")
  \/ Click("A")
  \/ \E t \in timers : TimerFire(t)
  \/ \E s \in {EmptyStr, LayerText} : Mutation("A", TRUE, <<NewSpan(s)>>)
  \/ \E q \in BOOLEAN : Mutation("A", q, << >>)
  \/ Tick

SpecLive ==
  /\ InitLive /\ [][NextLive]_vars
  /\ WF_vars(Tick)
  /\ WF_vars(\E t \in timers : TimerFire(t))

\* ------------------------------------------------------------------------
\* What the claims speak about
\* ------------------------------------------------------------------------
\* the connected watchers and the outstanding timers of reader r
ObserversOf(r) == {o \in 1..Len(observers) : observers[o].reader = r /\ observers[o].connected}
TimersOf(r) == {t \in timers : t.reader = r}
\* the timers the callbacks of ReaderState object s scheduled
TimersOfState(s) == {t \in timers : t.state = s}
\* some span of the rendered content of reader r is in colorized state
Colorized(r) == \E i \in 1..Len(textSpans(Cur, r)) : textSpans(Cur, r)[i].applied
HasState(r) == stateByReader[r] # 0
StateOf(r) == heap[stateByReader[r]]

\* C1: after stop() has run and until start() is called again, no span of
\* any reader's rendered content is colorized, whatever events follow.
C1_NoColorAfterStop ==
  ~registered => \A r \in Readers : ~Colorized(r)

\* C3: stop() leaves, for every reader that had a registry entry, no
\* connected watcher and no outstanding debounce timer.
C3_StopReleases ==
  [][Stop => \A r \in Readers :
        HasState(r) => (ObserversOf(r)' = {} /\ TimersOf(r)' = {})]_vars

\* C4: every reader has at most one connected watcher, the one its registry
\* entry holds, and a viewer-ready event for a reader whose state already
\* holds a watcher handle creates no watcher and leaves the handle unchanged.
C4_SingleWatcher ==
  /\ [](\A r \in Readers :
          /\ Cardinality(ObserversOf(r)) <= 1
          /\ \A o \in ObserversOf(r) : HasState(r) /\ StateOf(r).observer = o)
  /\ [][\A r \in Readers :
          (ToolbarEvent(r) /\ HasState(r) /\ StateOf(r).observer # 0)
            => /\ Len(observers') = Len(observers)
               /\ HasState(r)'
               /\ StateOf(r)'.observer = StateOf(r).observer]_vars

\* C4 witness: a second viewer-ready event found the watcher in place
C4_Witness ==
  \E r \in Readers : HasState(r) /\ ObserversOf(r) # {} /\ watch[stateByReader[r]].reinstall

\* C5: after a qualifying batch the watcher has exactly one recomputation
\* pending or done: one timer due REFRESH_DELAY after the latest batch of the
\* burst, or, once that timer has fired, one call, made REFRESH_DELAY after
\* the last batch and not sooner.
C5_DebounceCoalesces ==
  \A s \in 1..Len(heap) :
    watch[s].sinceBatch >= 0 =>
      /\ Cardinality(TimersOfState(s)) + watch[s].calls = 1
      /\ \A t \in TimersOfState(s) : t.remaining = REFRESH_DELAY - watch[s].sinceBatch
      /\ watch[s].calls = 1 => watch[s].callAt = REFRESH_DELAY

\* C5 witness: a burst of two or more batches has produced its one call
C5_Witness ==
  \E s \in 1..Len(heap) : watch[s].burst >= 2 /\ watch[s].calls = 1

\* C6: every reader has at most one outstanding debounce timer, and the
\* pending-timer handle of its registry entry is set exactly when that
\* timer is outstanding.
C6_OnePendingTimer ==
  \A r \in Readers :
    /\ Cardinality(TimersOf(r)) <= 1
    /\ (HasState(r) /\ StateOf(r).refreshTimer # 0) <=> (TimersOf(r) # {})

\* C9: the toggle button of a reader shows pressed exactly when the enabled
\* flag of its registry entry is true, and every click negates that flag.
C9_ButtonMirrorsRegistry ==
  /\ [](\A r \in Readers :
          (button[r].exists /\ HasState(r)) => (button[r].pressed <=> StateOf(r).enabled))
  /\ [][\A r \in Readers :
          (Click(r) /\ HasState(r))
            => (HasState(r)' /\ StateOf(r)'.enabled = ~StateOf(r).enabled)]_vars

\* ------------------------------------------------------------------------
\* The colorizer claims (checked under SpecHost and SpecPass)
\* ------------------------------------------------------------------------
\* the text a sequence of spans was rendered with
RECURSIVE InitText(_)
InitText(spans) ==
  IF spans = << >> THEN EmptyStr ELSE Head(spans).init \o InitText(Tail(spans))

\* the children of a sequence of spans, in document order
RECURSIVE FlatKids(_)
FlatKids(spans) ==
  IF spans = << >> THEN << >> ELSE Head(spans).kids \o FlatKids(Tail(spans))

\* what the document holds of a span: its children and its two annotations
Rendered(spans) ==
  [i \in 1..Len(spans) |->
     [kids |-> spans[i].kids, original |-> spans[i].original, applied |-> spans[i].applied]]

AllClean(spans) == \A i \in 1..Len(spans) : spans[i].clean

\* C2: a span the host has not rewritten and that is not colorized holds
\* exactly the text node it was rendered with, however many apply passes and
\* toggles came before; and a restore pass leaves every span that is not
\* colorized as it was.
C2_RestoreExact ==
  /\ [](\A r \in Readers : \A i \in 1..Len(dom[r]) :
          (dom[r][i].clean /\ ~dom[r][i].applied)
            => dom[r][i].kids = TextKids(dom[r][i].init))
  /\ [][\A r \in Readers :
          (pass[r]' = RestorePass /\ Len(dom[r]') = Len(dom[r]))
            => \A i \in 1..Len(dom[r]) :
                 ~dom[r][i].applied => dom[r]'[i] = dom[r][i]]_vars

\* C2 witness: a span with a two-unit character and whitespace, colorized
\* by two passes or more, has been restored
C2_Witness ==
  \E i \in 1..Len(dom["A"]) :
    LET span == dom["A"][i]
    IN  /\ span.clean /\ ~span.applied /\ span.passes >= 2
        /\ pass["A"] = RestorePass
        /\ Len(ArrayFrom(span.init)) < Len(span.init)
        /\ \E k \in 1..Len(span.init) : span.init[k] = " "

\* C7: after an apply pass over spans the host has not rewritten, the
\* generated children are, in document order, the codepoints of the whole
\* text, and the one at global offset k is colored
\* sampleColor((k mod 48)/48, end), whatever the split into spans.
C7_GradientContinuity ==
  \A r \in Readers :
    (pass[r].kind = "apply" /\ AllClean(dom[r])) =>
      LET flat  == FlatKids(dom[r])
          chars == ArrayFrom(InitText(dom[r]))
      IN  /\ Len(flat) = Len(chars)
          /\ \A k \in 1..Len(flat) :
               /\ flat[k].text = chars[k]
               /\ flat[k].color =
                    sampleColor(<<(k - 1) % CHARACTERS_PER_CYCLE, CHARACTERS_PER_CYCLE>>,
                                pass[r].endColor)

\* C7 witness: an apply pass ran over a split with an empty span and a cut
\* after the two-unit character, and the text is longer than one cycle
C7_Witness ==
  /\ pass["A"].kind = "apply" /\ AllClean(dom["A"])
  /\ Len(dom["A"]) >= 3
  /\ \E i \in 1..Len(dom["A"]) : dom["A"][i].init = EmptyStr
  /\ dom["A"][1].init = <<"H", "L">>
  /\ Len(FlatKids(dom["A"])) > CHARACTERS_PER_CYCLE

\* C8: an apply pass that follows an apply pass, with no change of content
\* or theme in between, leaves every span with the children it had.
C8_IdempotentApply ==
  [][\A r \in Readers :
       (pass[r].kind = "apply" /\ pass[r]'.kind = "apply")
         => Rendered(dom[r]') = Rendered(dom[r])]_vars

\* C8 witness: two apply passes in a row over colorized spans
C8_Witness ==
  /\ pass["A"].kind = "apply" /\ pass["A"].count >= 2
  /\ \E i \in 1..Len(dom["A"]) : dom["A"][i].applied

\* ------------------------------------------------------------------------
\* The frame of a toggle (checked under SpecPair)
\* ------------------------------------------------------------------------
\* C10: a click on the toggle of reader a leaves every other reader b as it
\* was: its registry entry and that entry's enabled flag, watcher handle
\* and pending timer, its watcher, its timers, its spans and its button.
C10_ToggleFrame ==
  [][\A a \in Readers :
       Click(a) => \A b \in Readers \ {a} :
         /\ stateByReader'[b] = stateByReader[b]
         /\ HasState(b) => StateOf(b)' = StateOf(b)
         /\ ObserversOf(b)' = ObserversOf(b)
         /\ TimersOf(b)' = TimersOf(b)
         /\ dom'[b] = dom[b]
         /\ button'[b] = button[b]]_vars

\* C10 witness: a click on "A" found "B" with state, watcher, pending timer
\* and colorized spans
C10_Witness == clickSaw["A"] /\ SetUp("B")

\* ------------------------------------------------------------------------
\* Toggles and pending timers (checked under Spec)
\* ------------------------------------------------------------------------
\* C11: a click on the toggle of a reader with a debounce timer outstanding
\* cancels that timer: no timer of the reader that was outstanding before
\* the click is outstanding after it.
C11_ToggleCancelsTimer ==
  [][\A r \in Readers :
       Click(r) => \A t \in TimersOf(r) : t \notin timers']_vars

\* no span of reader r carries the colorized marker
NoneApplied(r) == \A i \in 1..Len(dom[r]) : ~dom[r][i].applied

\* C12: while the enabled flag of a reader's registry entry stays false, a
\* reader whose spans have been restored stays restored: no timer firing,
\* mutation batch or viewer-ready event marks any of its spans colorized.
C12_DisabledStaysRestored ==
  [][\A r \in Readers :
       (/\ HasState(r) /\ ~StateOf(r).enabled
        /\ HasState(r)' /\ ~StateOf(r)'.enabled
        /\ NoneApplied(r))
         => NoneApplied(r)']_vars

\* C12 witness: a reader toggled to disabled whose colorized span has been
\* restored, and whose debounce timer has since fired and made a restore pass
C12_Witness ==
  \E r \in Readers :
    /\ HasState(r) /\ ~StateOf(r).enabled
    /\ iframeWindow[r] = "ready"
    /\ watch[stateByReader[r]].callPass = "restore"
    /\ \E i \in 1..Len(dom[r]) : dom[r][i].passes >= 1
    /\ NoneApplied(r)

\* ------------------------------------------------------------------------
\* The annotations of a span (checked under SpecHost)
\* ------------------------------------------------------------------------
\* C13: once an apply pass has captured the original text of a span, no
\* later step changes the captured value, also when the captured text is the
\* empty string and when the host rewrites the span between passes.
C13_CaptureOnce ==
  [][\A r \in Readers : \A i \in 1..Len(dom[r]) :
       (dom[r][i].original.has /\ i <= Len(dom[r]'))
         => dom[r]'[i].original = dom[r][i].original]_vars

\* a text that is empty or holds whitespace only
IsBlank(text) == \A k \in 1..Len(text) : text[k] = " "

\* C14: after an apply pass, every span whose original text is empty or
\* whitespace only has no generated character node and is not marked
\* colorized.
C14_BlankSkipped ==
  \A r \in Readers :
    pass[r].kind = "apply" =>
      \A i \in 1..Len(dom[r]) :
        (dom[r][i].original.has /\ IsBlank(dom[r][i].original.val))
          => /\ ~dom[r][i].applied
             /\ \A k \in 1..Len(dom[r][i].kids) : dom[r][i].kids[k].tag = "#text"

\* C15: a restore pass leaves every span it restores with neither the
\* colorized marker nor a captured original text, and an apply pass
\* colorizes, for every span that is not colorized, the text the span holds
\* at that pass.
C15_RestoreClearsAnnotations ==
  [][\A r \in Readers : \A i \in 1..Len(dom[r]) :
       /\ (pass[r]' = RestorePass /\ i <= Len(dom[r]') /\ dom[r][i].applied)
            => (~dom[r]'[i].applied /\ ~dom[r]'[i].original.has)
       /\ (pass[r]'.kind = "apply" /\ i <= Len(dom[r]') /\ ~dom[r][i].applied
             /\ textContent(dom[r][i]) # EmptyStr)
            => textContent(dom[r]'[i]) = textContent(dom[r][i])]_vars

\* ------------------------------------------------------------------------
\* The end color of a pass (checked under SpecPass)
\* ------------------------------------------------------------------------
\* the viewer of reader r is in dark presentation mode: its document has
\* the dark class or the dark color scheme is preferred
DarkMode(r) == theme[r].classDark \/ theme[r].mediaDark

\* the generated children in the second half of a cycle have the color the
\* gradient gives with end color end
EndsIn(r, end) ==
  LET flat == FlatKids(dom[r])
  IN  \A k \in 1..Len(flat) :
        2 * ((k - 1) % CHARACTERS_PER_CYCLE) >= CHARACTERS_PER_CYCLE
          => flat[k].color =
               interpolate(RED, end,
                           MulSmall(SubBig(Divide((k - 1) % CHARACTERS_PER_CYCLE,
                                                  CHARACTERS_PER_CYCLE), Half), 2))

\* C16 as stated: the end color of an apply pass is the light color
\* (241,245,249) when the viewer is in light mode and the dark color
\* (17,24,39) when it is in dark mode.
C16_EndColorLikeMode ==
  \A r \in Readers :
    pass[r].kind = "apply" =>
      pass[r].endColor = (IF DarkMode(r) THEN BLACK ELSE WHITE)

\* C16 amended: the end color of an apply pass is (17,24,39) when the viewer
\* is in light mode and (241,245,249) when it is in dark mode, the mode
\* being the one current at that pass, and the generated children of the
\* second half of each cycle blend from the accent to that color.
C16_EndColorAgainstMode ==
  \A r \in Readers :
    pass[r].kind = "apply" =>
      /\ pass[r].endColor = (IF DarkMode(r) THEN WHITE ELSE BLACK)
      /\ EndsIn(r, IF DarkMode(r) THEN WHITE ELSE BLACK)

\* C16 witness: an apply pass over more than a cycle of text ran in dark
\* mode known from the preferred color scheme alone, after a pass in light
\* mode had colorized the spans
C16_Witness ==
  /\ pass["A"].kind = "apply"
  /\ theme["A"].mediaDark /\ ~theme["A"].classDark
  /\ Len(FlatKids(dom["A"])) > CHARACTERS_PER_CYCLE
  /\ \E i \in 1..Len(dom["A"]) : dom["A"][i].passes >= 2

\* ------------------------------------------------------------------------
\* Recomputation after a batch (checked under SpecLive)
\* ------------------------------------------------------------------------
\* reader r is enabled, has its watcher connected and its document
\* rendered, and the watcher has just received a qualifying batch
Batched(r) ==
  /\ HasState(r) /\ StateOf(r).enabled
  /\ iframeWindow[r] = "ready"
  /\ StateOf(r).observer \in ObserversOf(r)
  /\ watch[stateByReader[r]].sinceBatch = 0

\* the timer of the last batch has run an apply pass, and every span with
\* non-empty text is colorized
Recomputed(r) ==
  /\ HasState(r)
  /\ watch[stateByReader[r]].calls >= 1
  /\ watch[stateByReader[r]].callPass = "apply"
  /\ \A i \in 1..Len(dom[r]) : textContent(dom[r][i]) # EmptyStr => dom[r][i].applied

\* the reader has been disabled or torn down
Intervened(r) == ~HasState(r) \/ ~StateOf(r).enabled

CreatedFor(r) == {o \in 1..Len(observers) : observers[o].reader = r}
TimerIds(r) == {t.id : t \in TimersOf(r)}
\* the registry entry of reader r holds no watcher handle
NoHandle(r) == ~HasState(r) \/ StateOf(r).observer = 0

\* C18: while the window or the body of a reader is unavailable, no step
\* (viewer-ready event, click, timer firing, teardown) changes its spans,
\* creates a watcher for it or schedules a timer for it, and an absent
\* watcher handle stays absent; and the viewer-ready event that finds the
\* root available and the handle absent installs the watcher and, the
\* reader being enabled, runs the apply pass over every span with text.
C18_UnavailableRoot ==
  [][\A r \in Readers :
       /\ iframeWindow[r] # "ready" =>
            /\ dom'[r] = dom[r]
            /\ CreatedFor(r)' = CreatedFor(r)
            /\ ObserversOf(r)' \subseteq ObserversOf(r)
            /\ TimerIds(r)' \subseteq TimerIds(r)
            /\ NoHandle(r) => NoHandle(r)'
       /\ (ToolbarEvent(r) /\ readerType(r) = "pdf" /\ iframeWindow[r] = "ready"
             /\ NoHandle(r)) =>
            /\ HasState(r)'
            /\ StateOf(r)'.observer \in ObserversOf(r)'
            /\ StateOf(r)'.enabled =>
                 /\ pass'[r].kind = "apply"
                 /\ \A i \in 1..Len(dom'[r]) :
                      dom[r][i].init # EmptyStr => dom'[r][i].applied]_vars

\* C18 witness: a viewer-ready event has run for a reader without a rendered
\* document: its button and its registry entry exist, the entry holds no
\* watcher handle, no timer is pending, and its span is as rendered
C18_Witness ==
  \E r \in Readers :
    /\ registered /\ button[r].exists /\ HasState(r)
    /\ iframeWindow[r] # "ready"
    /\ StateOf(r).observer = 0 /\ CreatedFor(r) = {} /\ TimersOf(r) = {}
    /\ Len(dom[r]) > 0 /\ NoneApplied(r)

\* ------------------------------------------------------------------------
\* The shape of a colorized span (checked under SpecHost)
\* ------------------------------------------------------------------------
\* the number of codepoints of a text: its code units less one for every
\* high surrogate directly followed by a low one
CodePointCount(text) ==
  Len(text) - Cardinality({k \in 1..(Len(text) - 1) : text[k] = "H" /\ text[k + 1] = "L"})

\* C19: a span the host has not rewritten and that is marked colorized has a
\* captured original text that is not empty, one generated child per
\* codepoint of that text, and children whose characters concatenate to that
\* text; and the text content of every span the host has not rewritten is
\* the text it was rendered with, colorized or not.
C19_ColorizedShape ==
  \A r \in Readers : \A i \in 1..Len(dom[r]) :
    dom[r][i].clean =>
      /\ textContent(dom[r][i]) = dom[r][i].init
      /\ dom[r][i].applied =>
           /\ dom[r][i].original.has
           /\ dom[r][i].original.val # EmptyStr
           /\ Len(dom[r][i].kids) = CodePointCount(dom[r][i].original.val)
           /\ \A k \in 1..Len(dom[r][i].kids) : dom[r][i].kids[k].tag = "span"
           /\ Concat(dom[r][i].kids) = dom[r][i].original.val

\* C19 witness: a span with a two-unit character, colorized by two apply
\* passes or more, next to a span that was rendered empty
C19_Witness ==
  \E i, j \in 1..Len(dom["A"]) :
    /\ dom["A"][i].clean /\ dom["A"][i].applied /\ dom["A"][i].passes >= 2
    /\ Len(dom["A"][i].kids) < Len(dom["A"][i].init)
    /\ dom["A"][j].init = EmptyStr /\ dom["A"][j].clean

\* ------------------------------------------------------------------------
\* The gradient function (checked under SpecPass, whose apply passes sample
\* every cycle position with both end colors)
\* ------------------------------------------------------------------------
\* C20: the color of the generated child at cycle position n has every
\* channel an integer in 0..255 that is a nearest integer of the linear
\* blend, from anchor to accent with parameter n/24 when n < 24 and from
\* accent to the end color with parameter (n-24)/24 otherwise (24 times the
\* channel differs from 24 times the blend by at most 12); position 0 has
\* exactly the anchor color and position 24 exactly the accent color.
C20_SampleNearestBlend ==
  \A r \in Readers :
    (pass[r].kind = "apply" /\ AllClean(dom[r])) =>
      LET flat == FlatKids(dom[r])
          h    == CHARACTERS_PER_CYCLE \div 2
      IN  \A k \in 1..Len(flat) :
            LET n    == (k - 1) % CHARACTERS_PER_CYCLE
                from == IF n < h THEN <<26, 115, 232>> ELSE <<220, 38, 38>>
                to   == IF n < h THEN <<220, 38, 38>> ELSE pass[r].endColor
                j    == IF n < h THEN n ELSE n - h
            IN  /\ \A i \in 1..3 :
                     LET c    == flat[k].color[i]
                         xh   == h * from[i] + (to[i] - from[i]) * j
                     IN  /\ c \in 0..255
                         /\ 2 * (h * c - xh) <= h
                         /\ 2 * (xh - h * c) <= h
                /\ n = 0 => flat[k].color = <<26, 115, 232>>
                /\ n = h => flat[k].color = <<220, 38, 38>>

\* C20 witness: an apply pass with the end color (241,245,249) has colored
\* more than a whole cycle; at position 44 the green blend is the tie 210.5
\* and the channel is 210
C20_Witness ==
  /\ pass["A"].kind = "apply" /\ AllClean(dom["A"])
  /\ pass["A"].endColor = <<241, 245, 249>>
  /\ Len(FlatKids(dom["A"])) > CHARACTERS_PER_CYCLE
  /\ FlatKids(dom["A"])[45].color[2] = 210
====
